---- MODULE Spec2Model ----
(***************************************************************************)
(* Model of the two containers of src/rpg-syntax.ts:                       *)
(*   - Inventory, the binary search tree of Items keyed by name            *)
(*     (BSTNode, insert, traverseInOrder, searchItem), lines 189-233;      *)
(*   - PriorityQueue<T> (enqueue, dequeue), lines 174-184.                 *)
(* The node objects live in an arena: nodes[i] is the i-th BSTNode ever    *)
(* constructed, 0 stands for null, and a node no reference reaches any     *)
(* more (garbage) simply stays in the arena.                               *)
(***************************************************************************)
EXTENDS Integers, Sequences, FiniteSets

VARIABLES nodes, root, inserted, treeOp, heap, enqueued, dequeued, queueOp

treeVars == <<nodes, root, inserted, treeOp>>
queueVars == <<heap, enqueued, dequeued, queueOp>>
vars == <<nodes, root, inserted, treeOp, heap, enqueued, dequeued, queueOp>>

(***************************************************************************)
(* Bounds of the model.                                                    *)
(***************************************************************************)
MaxInserts == 4
MaxEnqueues == 3

(***************************************************************************)
(* enum Rarity: the numeric values TypeScript gives the members.           *)
(***************************************************************************)
Common == 0
Uncommon == 1
Rare == 2
Legendary == 3
Rarity == {Common, Uncommon, Rare, Legendary}

(***************************************************************************)
(* Strings are sequences of UTF-16 code units: "B" = <<66>>, "a" = <<97>>, *)
(* "ab" = <<97, 98>>, "b" = <<98>>.                                        *)
(***************************************************************************)
Names == {<<66>>, <<97>>, <<97, 98>>, <<98>>}

\* type Item = { name: string; rarity: Rarity }.  The items inserted here take
\* every name of Names and two of the rarities: no code reads rarity.
Item == [name : Names, rarity : {Common, Legendary}]

\* null (a node reference) is 0.
Null == 0

(***************************************************************************)
(* The < of JavaScript on two strings: code unit by code unit, a proper    *)
(* prefix being smaller.                                                   *)
(***************************************************************************)
RECURSIVE StrLess(_, _)
StrLess(a, b) ==
  IF b = <<>> THEN FALSE
  ELSE IF a = <<>> THEN TRUE
  ELSE IF Head(a) # Head(b) THEN Head(a) < Head(b)
  ELSE StrLess(Tail(a), Tail(b))

\* new BSTNode(value): left and right start null.
BSTNode(value) == [value |-> value, left |-> Null, right |-> Null]

(***************************************************************************)
(* Mutants of insertNode: the textbook form, which returns the subtree it  *)
(* was given, with the comparison reversed (Mirrored) or with equal keys   *)
(* routed left (LeftTies).                                                 *)
(***************************************************************************)
RECURSIVE insertNodeMirrored(_, _, _)
insertNodeMirrored(ns, node, value) ==
  IF node = Null
    THEN [nodes |-> Append(ns, BSTNode(value)), ret |-> Len(ns) + 1]
    ELSE IF StrLess(ns[node].value.name, value.name)
      THEN LET r == insertNodeMirrored(ns, ns[node].left, value)
           IN  [nodes |-> [r.nodes EXCEPT ![node].left = r.ret], ret |-> node]
      ELSE LET r == insertNodeMirrored(ns, ns[node].right, value)
           IN  [nodes |-> [r.nodes EXCEPT ![node].right = r.ret], ret |-> node]

RECURSIVE insertNodeLeftTies(_, _, _)
insertNodeLeftTies(ns, node, value) ==
  IF node = Null
    THEN [nodes |-> Append(ns, BSTNode(value)), ret |-> Len(ns) + 1]
    ELSE IF ~StrLess(ns[node].value.name, value.name)
      THEN LET r == insertNodeLeftTies(ns, ns[node].left, value)
           IN  [nodes |-> [r.nodes EXCEPT ![node].left = r.ret], ret |-> node]
      ELSE LET r == insertNodeLeftTies(ns, ns[node].right, value)
           IN  [nodes |-> [r.nodes EXCEPT ![node].right = r.ret], ret |-> node]

(***************************************************************************)
(* insertNode(node, value), the closure of Inventory.insert, on the arena  *)
(* ns.  On null it constructs a node.  Otherwise it returns the value of   *)
(* the assignment expression (node.left = insertNode(node.left, value)) or *)
(* (node.right = ...), which is the value assigned: what the recursive     *)
(* call returned, not node.                                                *)
(***************************************************************************)
RECURSIVE insertNode(_, _, _)
insertNode(ns, node, value) ==
  IF node = Null
    THEN [nodes |-> Append(ns, BSTNode(value)), ret |-> Len(ns) + 1]
    ELSE IF StrLess(value.name, ns[node].value.name)
      THEN LET r == insertNode(ns, ns[node].left, value)
           IN  [nodes |-> [r.nodes EXCEPT ![node].left = r.ret], ret |-> r.ret]
      ELSE LET r == insertNode(ns, ns[node].right, value)
           IN  [nodes |-> [r.nodes EXCEPT ![node].right = r.ret], ret |-> r.ret]

\* insert(item): this.root = insertNode(this.root, item), on a tree [nodes, root].
insert(t, item) ==
  LET r == insertNode(t.nodes, t.root, item)
  IN  [nodes |-> r.nodes, root |-> r.ret]

\* A freshly constructed Inventory: root = null.
EmptyTree == [nodes |-> <<>>, root |-> Null]

(***************************************************************************)
(* traverseInOrder(callback, node): the nodes handed to callback, in call  *)
(* order.                                                                  *)
(***************************************************************************)
RECURSIVE traverseInOrder(_, _)
traverseInOrder(ns, node) ==
  IF node = Null THEN <<>>
  ELSE traverseInOrder(ns, ns[node].left) \o <<node>> \o traverseInOrder(ns, ns[node].right)

\* searchNode(node, name), the closure of Inventory.searchItem.
RECURSIVE searchNode(_, _, _)
searchNode(ns, node, name) ==
  IF node = Null THEN Null
  ELSE IF name = ns[node].value.name THEN node
  ELSE IF StrLess(name, ns[node].value.name)
    THEN searchNode(ns, ns[node].left, name)
    ELSE searchNode(ns, ns[node].right, name)

(***************************************************************************)
(* searchItem(name): searchNode(this.root, name)?.value || null.  The      *)
(* result is <<>> for null and <<item>> for an item (an object is truthy). *)
(***************************************************************************)
searchItem(t, name) ==
  LET n == searchNode(t.nodes, t.root, name)
  IN  IF n = Null THEN <<>> ELSE <<t.nodes[n].value>>

\* The Items of a sequence of nodes.
Values(ns, seq) == [i \in 1..Len(seq) |-> ns[seq[i]].value]

\* insert applied to the items of a sequence, first to last.
RECURSIVE insertAll(_, _)
insertAll(t, items) ==
  IF items = <<>> THEN t ELSE insertAll(insert(t, Head(items)), Tail(items))

NoTreeOp == [op |-> "none", name |-> <<>>, ret |-> <<>>, found |-> Null,
             visited |-> <<>>, copy |-> EmptyTree]

(***************************************************************************)
(* PriorityQueue<T>.  An entry is the object { value, priority } that      *)
(* enqueue constructs; id is the object's identity, the ordinal of its     *)
(* construction, which no code reads.                                      *)
(***************************************************************************)
QueueValues == {"Defend Village", "Attack Orcs", "Guard Gate"}
Priorities == {1, 2, 3}

\* Mutant of compare: ascending priority.
compareAscending(a, b) == a.priority - b.priority

\* The comparator of enqueue's sort: (a, b) => b.priority - a.priority.
compare(a, b) == b.priority - a.priority

\* Mutant of place: an element also moves in front of the elements it ties with.
RECURSIVE placeBeforeTies(_, _)
placeBeforeTies(s, e) ==
  IF s = <<>> THEN <<e>>
  ELSE IF compare(s[Len(s)], e) >= 0
    THEN Append(placeBeforeTies(SubSeq(s, 1, Len(s) - 1), e), s[Len(s)])
    ELSE Append(s, e)

(***************************************************************************)
(* Array.prototype.sort(comparefn) is a stable sort (ECMAScript 2019,      *)
(* 22.1.3.27): elements that compare equal keep their order.  It is        *)
(* computed here as an insertion sort: place moves e to the left past the  *)
(* elements that compare greater than it, and past no other.               *)
(***************************************************************************)
RECURSIVE place(_, _)
place(s, e) ==
  IF s = <<>> THEN <<e>>
  ELSE IF compare(s[Len(s)], e) > 0
    THEN Append(place(SubSeq(s, 1, Len(s) - 1), e), s[Len(s)])
    ELSE Append(s, e)

RECURSIVE sort(_)
sort(s) ==
  IF s = <<>> THEN <<>>
  ELSE place(sort(SubSeq(s, 1, Len(s) - 1)), s[Len(s)])

\* enqueue(value, priority): push { value, priority }, then sort the array.
enqueue(h, id, value, priority) ==
  sort(Append(h, [value |-> value, priority |-> priority, id |-> id]))

\* Mutant of dequeue: the last element is taken (pop) instead of the first.
dequeuePop(h) ==
  IF h = <<>>
    THEN [heap |-> h, ret |-> <<>>, entry |-> <<>>, threw |-> FALSE]
    ELSE [heap |-> SubSeq(h, 1, Len(h) - 1), ret |-> <<h[Len(h)].value>>,
          entry |-> <<h[Len(h)]>>, threw |-> FALSE]

\* Mutant of dequeue: shift().value without the ?., a TypeError on undefined.
dequeueThrows(h) ==
  IF h = <<>>
    THEN [heap |-> h, ret |-> <<>>, entry |-> <<>>, threw |-> TRUE]
    ELSE [heap |-> Tail(h), ret |-> <<Head(h).value>>,
          entry |-> <<Head(h)>>, threw |-> FALSE]

(***************************************************************************)
(* dequeue(): this.heap.shift()?.value.  shift removes and returns the     *)
(* first element, or returns undefined and leaves an empty array empty;    *)
(* ?.value is then undefined.  ret is <<>> for undefined, <<v>> for v;     *)
(* entry is the object shift returned; threw says an exception escaped.    *)
(***************************************************************************)
dequeue(h) ==
  IF h = <<>>
    THEN [heap |-> h, ret |-> <<>>, entry |-> <<>>, threw |-> FALSE]
    ELSE [heap |-> Tail(h), ret |-> <<Head(h).value>>,
          entry |-> <<Head(h)>>, threw |-> FALSE]

NoQueueOp == [op |-> "none", ret |-> <<>>, entry |-> <<>>, threw |-> FALSE,
              before |-> <<>>]

(***************************************************************************)
(* The state after construction: an Inventory with root = null, a          *)
(* PriorityQueue with heap = [].  inserted and enqueued record the items   *)
(* and entries passed in so far, dequeued the entries shift returned, each *)
(* with the number of entries the array held before; treeOp and queueOp    *)
(* hold the last call and what it returned.                                *)
(***************************************************************************)
Init ==
  /\ nodes = <<>>
  /\ root = Null
  /\ inserted = <<>>
  /\ treeOp = NoTreeOp
  /\ heap = <<>>
  /\ enqueued = <<>>
  /\ dequeued = <<>>
  /\ queueOp = NoQueueOp

\* inventory.insert(item)
Insert(item) ==
  /\ Len(inserted) < MaxInserts
  /\ LET t == insert([nodes |-> nodes, root |-> root], item)
     IN  /\ nodes' = t.nodes
         /\ root' = t.root
  /\ inserted' = Append(inserted, item)
  /\ treeOp' = [NoTreeOp EXCEPT !.op = "insert"]
  /\ UNCHANGED queueVars

\* inventory.traverseInOrder(callback), node defaulting to this.root
TraverseInOrder ==
  /\ treeOp' = [NoTreeOp EXCEPT !.op = "traverse",
                                !.visited = traverseInOrder(nodes, root)]
  /\ UNCHANGED <<nodes, root, inserted>>
  /\ UNCHANGED queueVars

\* inventory.searchItem(name)
SearchItem(name) ==
  /\ treeOp' = [NoTreeOp EXCEPT !.op = "search", !.name = name,
                  !.ret = searchItem([nodes |-> nodes, root |-> root], name),
                  !.found = searchNode(nodes, root, name)]
  /\ UNCHANGED <<nodes, root, inserted>>
  /\ UNCHANGED queueVars

(***************************************************************************)
(* The round trip: the items traverseInOrder hands out are inserted, in    *)
(* that order, into a fresh Inventory (copy).                              *)
(***************************************************************************)
RoundTrip ==
  /\ LET out == traverseInOrder(nodes, root)
     IN  treeOp' = [NoTreeOp EXCEPT !.op = "roundtrip", !.visited = out,
                      !.copy = insertAll(EmptyTree, Values(nodes, out))]
  /\ UNCHANGED <<nodes, root, inserted>>
  /\ UNCHANGED queueVars

\* queue.enqueue(value, priority)
Enqueue(value, priority) ==
  /\ Len(enqueued) < MaxEnqueues
  /\ heap' = enqueue(heap, Len(enqueued) + 1, value, priority)
  /\ enqueued' = Append(enqueued,
                   [value |-> value, priority |-> priority, id |-> Len(enqueued) + 1])
  /\ queueOp' = [NoQueueOp EXCEPT !.op = "enqueue", !.before = heap]
  /\ UNCHANGED dequeued
  /\ UNCHANGED treeVars

\* queue.dequeue()
Dequeue ==
  /\ LET r == dequeue(heap)
     IN  /\ heap' = r.heap
         /\ dequeued' = IF r.entry = <<>> THEN dequeued
                        ELSE Append(dequeued, [entry |-> r.entry[1], held |-> Len(heap)])
         /\ queueOp' = [op |-> "dequeue", ret |-> r.ret, entry |-> r.entry,
                        threw |-> r.threw, before |-> heap]
  /\ UNCHANGED enqueued
  /\ UNCHANGED treeVars

TreeNext ==
  \/ \E item \in Item : Insert(item)
  \/ TraverseInOrder
  \/ \E name \in Names : SearchItem(name)
  \/ RoundTrip

QueueNext ==
  \/ \E value \in QueueValues, priority \in Priorities : Enqueue(value, priority)
  \/ Dequeue

\* The two containers are independent: each is checked under its own specification.
SpecTree == Init /\ [][TreeNext]_vars
SpecQueue == Init /\ [][QueueNext]_vars

(***************************************************************************)
(* Helpers of the properties.                                              *)
(***************************************************************************)
Count(seq, x) == Cardinality({i \in 1..Len(seq) : seq[i] = x})
Range(seq) == {seq[i] : i \in 1..Len(seq)}

\* The nodes reachable from node through left and right.
RECURSIVE Subtree(_, _)
Subtree(ns, node) ==
  IF node = Null THEN {}
  ELSE {node} \cup Subtree(ns, ns[node].left) \cup Subtree(ns, ns[node].right)

\* The number of nodes on the longest path from node down to a leaf.
RECURSIVE Height(_, _)
Height(ns, node) ==
  IF node = Null THEN 0
  ELSE LET l == Height(ns, ns[node].left)
           r == Height(ns, ns[node].right)
       IN  1 + (IF l > r THEN l ELSE r)

\* a <= b on strings.
StrLeq(a, b) == ~StrLess(b, a)

\* The first insert call that passed an item of this name (0: none did).
FirstInserted(name) ==
  LET S == {i \in 1..Len(inserted) : inserted[i].name = name}
  IN  IF S = {} THEN 0 ELSE CHOOSE i \in S : \A j \in S : i <= j

(***************************************************************************)
(* C1: searchItem(name) returns an item if and only if some inserted item  *)
(* has exactly that name.                                                  *)
(***************************************************************************)
C1_SearchFindsExactlyTheInserted ==
  treeOp.op = "search" =>
    ((treeOp.ret # <<>>) <=> (\E i \in 1..Len(inserted) : inserted[i].name = treeOp.name))

(***************************************************************************)
(* C2: traverseInOrder hands every inserted item to the callback exactly   *)
(* once: as many visits as inserts, and each item as often as inserted.    *)
(***************************************************************************)
C2_TraverseVisitsEveryInsertedItemOnce ==
  treeOp.op = "traverse" =>
    /\ Len(treeOp.visited) = Len(inserted)
    /\ \A x \in Item : Count(Values(nodes, treeOp.visited), x) = Count(inserted, x)

(***************************************************************************)
(* C3: when searchItem(name) finds a node, it is the node of the           *)
(* first-inserted item of that name (node i is the node insert call i      *)
(* constructed).                                                           *)
(***************************************************************************)
C3_SearchReturnsTheFirstInserted ==
  (treeOp.op = "search" /\ treeOp.found # Null) =>
    /\ treeOp.found = FirstInserted(treeOp.name)
    /\ treeOp.ret = <<inserted[FirstInserted(treeOp.name)]>>

C4_DequeueReturnsMaximum ==
  (queueOp.op = "dequeue" /\ queueOp.before # <<>>) =>
    /\ queueOp.entry # <<>>
    /\ queueOp.entry[1] \in Range(queueOp.before)
    /\ queueOp.ret = <<queueOp.entry[1].value>>
    /\ \A i \in 1..Len(queueOp.before) :
         queueOp.entry[1].priority >= queueOp.before[i].priority

C4_Witness ==
  /\ queueOp.op = "dequeue"
  /\ Len(queueOp.before) >= 2
  /\ Len(dequeued) >= 2
  /\ \E i \in 1..Len(queueOp.before) :
       queueOp.before[i].priority < queueOp.entry[1].priority
  /\ enqueued[Len(enqueued)].priority > enqueued[1].priority

(***************************************************************************)
(* C5: among entries of equal priority dequeue returns the earliest        *)
(* enqueued first, and on the enqueues (Defend Village, 2),                *)
(* (Attack Orcs, 1), (Guard Gate, 2) followed by three dequeues the values *)
(* come out as Defend Village, Guard Gate, Attack Orcs.                    *)
(***************************************************************************)
TieBreakScenario ==
  <<[value |-> "Defend Village", priority |-> 2, id |-> 1],
    [value |-> "Attack Orcs", priority |-> 1, id |-> 2],
    [value |-> "Guard Gate", priority |-> 2, id |-> 3]>>

ThreeDequeuesAfterScenario ==
  /\ enqueued = TieBreakScenario
  /\ Len(dequeued) = 3
  /\ dequeued[1].held = 3

C5_TiesInInsertionOrder ==
  /\ (queueOp.op = "dequeue" /\ queueOp.before # <<>>) =>
       /\ queueOp.entry # <<>>
       /\ \A i \in 1..Len(queueOp.before) :
            queueOp.before[i].priority = queueOp.entry[1].priority
              => queueOp.entry[1].id <= queueOp.before[i].id
  /\ ThreeDequeuesAfterScenario =>
       [i \in 1..3 |-> dequeued[i].entry.value]
         = <<"Defend Village", "Guard Gate", "Attack Orcs">>

C5_Witness ==
  /\ ThreeDequeuesAfterScenario
  /\ queueOp.op = "dequeue"
  /\ queueOp.before # <<>>

(***************************************************************************)
(* C8: dequeue on a queue with no entries returns undefined, throws        *)
(* nothing and leaves the queue empty, and an enqueue followed by a        *)
(* dequeue then returns the value enqueued and leaves the queue empty, as  *)
(* on a fresh queue.                                                       *)
(***************************************************************************)
C8_DequeueOnEmpty ==
  (queueOp.op = "dequeue" /\ queueOp.before = <<>>) =>
    /\ queueOp.ret = <<>>
    /\ ~queueOp.threw
    /\ heap = <<>>
    /\ \A v \in QueueValues, p \in Priorities :
         LET r == dequeue(enqueue(heap, Len(enqueued) + 1, v, p))
         IN  r.ret = <<v>> /\ r.heap = <<>> /\ ~r.threw

C8_Witness ==
  /\ queueOp.op = "dequeue"
  /\ queueOp.before = <<>>
  /\ Len(dequeued) >= 2

(***************************************************************************)
(* C10: the queue conserves its entries.  enqueue adds one entry and keeps *)
(* the others as they were, dequeue on a non-empty queue removes one, the  *)
(* array is sorted by non-increasing priority after every operation, every *)
(* enqueued entry is either held once or was dequeued once, and no value   *)
(* came out of dequeue more often than it went in.                         *)
(***************************************************************************)
DequeuedEntries == [i \in 1..Len(dequeued) |-> dequeued[i].entry]

C10_Conservation ==
  /\ \A i, j \in 1..Len(heap) : i < j => heap[i].priority >= heap[j].priority
  /\ \A e \in Range(enqueued) : Count(heap, e) + Count(DequeuedEntries, e) = 1
  /\ Range(heap) \cup Range(DequeuedEntries) \subseteq Range(enqueued)
  /\ Len(heap) + Len(dequeued) = Len(enqueued)
  /\ queueOp.op = "enqueue" =>
       /\ Len(heap) = Len(queueOp.before) + 1
       /\ Range(queueOp.before) \subseteq Range(heap)
       /\ enqueued[Len(enqueued)] \in Range(heap)
  /\ (queueOp.op = "dequeue" /\ queueOp.before # <<>>) =>
       /\ Len(heap) = Len(queueOp.before) - 1
       /\ Range(heap) \subseteq Range(queueOp.before)
  /\ \A v \in QueueValues :
       Cardinality({i \in 1..Len(dequeued) : dequeued[i].entry.value = v})
         <= Cardinality({i \in 1..Len(enqueued) : enqueued[i].value = v})

C10_Witness ==
  /\ queueOp.op = "enqueue"
  /\ Len(heap) >= 2
  /\ Len(dequeued) >= 1
  /\ heap[1].id > heap[2].id

====
